---- MODULE Spec2Model ----
(***************************************************************************)
(* A model of the simulation core of rocket_tool.py: interp_thrust,        *)
(* check_conditions, run_events and simulate_flight.                       *)
(*                                                                         *)
(* Python floats are modelled in fixed point:                              *)
(*   time                       in ms            (dt = 0.05 s  = 50)       *)
(*   altitude, velocity, accel  in 1e-4 m, 1e-4 m/s, 1e-4 m/s^2            *)
(*   thrust, drag, weight       in 1e-4 N                                  *)
(*   mass                       in g                                       *)
(*   diameter                   in 1e-5 m,  area in 1e-7 m^2               *)
(*   drag coefficient           in 1/100                                   *)
(* Every division rounds towards minus infinity; the drag is computed from *)
(* the speed in mm/s.  interp_thrust itself is exact: it returns the       *)
(* rational num/den.  Time is exact as well: t = steps * dt, where Python's *)
(* repeated t += 0.05 carries a rounding error of some 1e-14 s (ten steps   *)
(* give 0.49999999999999994, six thousand give 300.00000000003394).        *)
(***************************************************************************)
EXTENDS Integers, Sequences, FiniteSets, TLC

VARIABLES
    \* ---- simulate_flight -------------------------------------------------
    pc,          \* "idle" | "loop" | "done" | "error"
    config,      \* the MissionConfig handed to simulate_flight
    heap,        \* the event dicts, by identity: heap[id] = [time, condition, _triggered]
    events,      \* simulate_flight's local list (config.events.copy()): a sequence of ids
    t,           \* local t
    velocity,    \* local velocity
    altitude,    \* local altitude
    mass,        \* local mass
    area,        \* local area
    data,        \* the sample list: [len |-> number of samples, last |-> the last one]
    outcome,     \* "none" | "running" | "timeout" | "landed" | an exception's name
    \* ---- observers of a run ----------------------------------------------
    run,         \* number of simulate_flight calls made on config
    steps,       \* loop iterations executed by the current call
    firedAt,     \* firedAt[i]: the step at which events[i] was reported, 0 if not
    firedCount,  \* firedCount[i]: how often events[i] was returned by run_events
    firstElig,   \* firstElig[i]: the first step whose state met event i's terms, 0 if none
    prevFiredAt, \* firedAt of the previous call
    liftoff,     \* altitude has been positive in this call
    landedAt,    \* the step at which altitude first returned to 0 after liftoff, 0 if none
    \* ---- direct calls of interp_thrust(curve, tq) --------------------------
    curve, tq, thrustResult,
    \* ---- direct calls of run_events and check_conditions -------------------
    callResult,  \* the last run_events call: [state, triggered, err]
    prevCall,    \* the call before it
    calls,       \* number of run_events calls made
    retCount,    \* retCount[i]: how often event i was returned by these calls
    everFlag,    \* the events whose flag has been seen set
    condCall     \* the last check_conditions call: [conditions, state, result]

simVars == <<pc, config, heap, events, t, velocity, altitude, mass, area, data,
             outcome, run, steps, firedAt, firedCount, firstElig, prevFiredAt,
             liftoff, landedAt>>
interpVars == <<curve, tq, thrustResult>>
callVars == <<callResult, prevCall, calls, retCount, everFlag, condCall>>
vars == <<simVars, interpVars, callVars>>

----------------------------------------------------------------------------
\* Program constants, in the model's units.
GRAVITY == 981
AIR_DENSITY == 1225
PI10K == 31416
DT == 50
TIME_LIMIT == 300000

\* Bounds of the model.
MaxRuns == 2
MaxCalls == 3
MaxCurveLen == 3
MaxPointTime == 2

----------------------------------------------------------------------------
\* Arithmetic helpers.

Abs(x) == IF x < 0 THEN -x ELSE x


----------------------------------------------------------------------------
\* interp_thrust (src/rocket_tool.py 61-71).  A curve is a sequence of
\* <<time, thrust>> control points.  The result is the exact rational num/den,
\* or the exception the division raises.

Value(n, d) == [kind |-> "value", num |-> n, den |-> d]
Raised(e) == [kind |-> e, num |-> 0, den |-> 1]

\* for i in range(len(thrust_curve)-1): the first segment with t0 <= t <= t1 returns
RECURSIVE InterpScan(_, _, _)
InterpScan(thrust_curve, i, tx) ==
    IF i > Len(thrust_curve) - 1
    THEN IF tx > thrust_curve[Len(thrust_curve)][1]
         THEN Value(0, 1)
         ELSE Value(thrust_curve[1][2], 1)
    ELSE LET t0      == thrust_curve[i][1]
             thrust0 == thrust_curve[i][2]
             t1      == thrust_curve[i + 1][1]
             thrust1 == thrust_curve[i + 1][2]
         IN  IF t0 <= tx /\ tx <= t1
             THEN IF t1 - t0 = 0
                  THEN Raised("ZeroDivisionError")
                  ELSE Value(thrust0 * (t1 - t0) + (thrust1 - thrust0) * (tx - t0), t1 - t0)
             ELSE InterpScan(thrust_curve, i + 1, tx)

\* a variant that asks for three control points
interp_thrust_min3(thrust_curve, tx) ==
    IF Len(thrust_curve) < 3 THEN Value(0, 1) ELSE InterpScan(thrust_curve, 1, tx)

interp_thrust(thrust_curve, tx) ==
    IF Len(thrust_curve) < 2 THEN Value(0, 1) ELSE InterpScan(thrust_curve, 1, tx)

----------------------------------------------------------------------------
\* check_conditions (106-118).  A condition mapping is the sequence of its items
\* in iteration order, each [key, num, val]: num says whether the threshold is a
\* number, val is the number.  The result is "True", "False" or "TypeError"
\* (Python's comparison of a number with a non-number).

KnownKeys == {"altitude_gt", "altitude_lt", "time_gt", "time_lt"}

\* the four ifs of the loop body, for an item with a numeric threshold
Blocks(cond, val, state) ==
    \/ cond = "altitude_gt" /\ state.altitude <= val
    \/ cond = "altitude_lt" /\ state.altitude >= val
    \/ cond = "time_gt" /\ state.time <= val
    \/ cond = "time_lt" /\ state.time >= val

RECURSIVE CheckFrom(_, _, _)
CheckFrom(conditions, i, state) ==
    IF i > Len(conditions) THEN "True"
    ELSE LET c == conditions[i]
         IN  IF c.key \in KnownKeys /\ ~c.num THEN "TypeError"
             ELSE IF c.num /\ Blocks(c.key, c.val, state) THEN "False"
             ELSE CheckFrom(conditions, i + 1, state)

check_conditions(conditions, state) ==
    IF Len(conditions) = 0 THEN "True" ELSE CheckFrom(conditions, 1, state)

----------------------------------------------------------------------------
\* run_events (120-127) over the event dicts h, for the list evs of their ids.
\* Returns the dicts after the call, the ids appended to triggered, and the
\* exception that ended the call ("none" if it returned).

\* a variant with a strict comparison
TimeReached_strict(state, ev) == state.time > ev.time

\* state["time"] >= ev["time"]
TimeReached(state, ev) == state.time >= ev.time

\* a variant that does not record the firing
SetTriggered_forgets(h, id) == h

\* ev["_triggered"] = True
SetTriggered(h, id) == [h EXCEPT ![id].triggered = TRUE]

RECURSIVE RunFrom(_, _, _, _, _)
RunFrom(h, evs, i, state, triggered) ==
    IF i > Len(evs) THEN [heap |-> h, triggered |-> triggered, err |-> "none"]
    ELSE LET ev == h[evs[i]]
         IN  IF ~ev.triggered /\ TimeReached(state, ev)
             THEN LET r == check_conditions(ev.condition, state)
                  IN  IF r = "TypeError"
                      THEN [heap |-> h, triggered |-> <<>>, err |-> "TypeError"]
                      ELSE IF r = "True"
                      THEN RunFrom(SetTriggered(h, evs[i]), evs, i + 1, state,
                                   Append(triggered, evs[i]))
                      ELSE RunFrom(h, evs, i + 1, state, triggered)
             ELSE RunFrom(h, evs, i + 1, state, triggered)

run_events(h, evs, state) == RunFrom(h, evs, 1, state, <<>>)

----------------------------------------------------------------------------
\* The mission configurations simulate_flight is run on.

Pt(tm, thrust) == <<tm, thrust>>
Cond(k, n, v) == [key |-> k, num |-> n, val |-> v]
Ev(tm, c) == [time |-> tm, condition |-> c, triggered |-> FALSE]

\* MOTOR_PRESETS["Estes D12"] (35-42) and the curve plan_mission builds for a
\* custom motor, [(0, avg_t), (bt, 0)] (247-254); "Custom": {} has no entries.
EstesD12 == [thrust_curve |-> <<Pt(0, 120000), Pt(1600, 0)>>, avg_thrust |-> 75000, mass |-> 24]
CustomMotor(avg_t, bt) ==
    [thrust_curve |-> <<Pt(0, avg_t), Pt(bt, 0)>>, avg_thrust |-> avg_t, mass |-> 0]
NoMotor == [thrust_curve |-> <<>>, avg_thrust |-> 0, mass |-> 0]

Vehicle(m, d, cd, motor) ==
    [rocket_mass |-> m, rocket_diameter |-> d, drag_coefficient |-> cd,
     motor_params |-> motor, payload_mass |-> 0]

\* class MissionConfig (78-87); events holds the ids of the event dicts
MissionConfig(v, ids) ==
    [rocket_mass |-> v.rocket_mass, rocket_diameter |-> v.rocket_diameter,
     drag_coefficient |-> v.drag_coefficient, motor_params |-> v.motor_params,
     payload_mass |-> v.payload_mass, events |-> ids]

Nominal == Vehicle(500, 5000, 75, CustomMotor(120000, 1600))   \* lifts off
Heavy == Vehicle(1000, 5000, 75, EstesD12)               \* avg_thrust < weight < peak thrust
Weak == Vehicle(500, 5000, 75, CustomMotor(40000, 1600)) \* thrust below weight
Default == Vehicle(500, 5000, 75, NoMotor)               \* MissionConfig's defaults
ZeroDiameter == Vehicle(500, 0, 75, CustomMotor(120000, 1600))
ZeroMass == Vehicle(0, 5000, 75, CustomMotor(120000, 1600))
ZeroBurn == Vehicle(500, 5000, 75, CustomMotor(120000, 0))
Vehicles == {Nominal, Heavy, Weak, Default, ZeroDiameter, ZeroMass, ZeroBurn}

EventLists ==
    { <<>>,
      <<Ev(1000, <<>>)>>,
      <<Ev(200, <<Cond("altitude_gt", TRUE, 10000)>>), Ev(1000, <<>>)>>,
      <<Ev(0, <<Cond("altitude_lt", TRUE, 50000), Cond("time_gt", TRUE, 2500)>>)>>,
      <<Ev(500, <<Cond("colour", FALSE, 0)>>)>>,
      <<Ev(500, <<Cond("altitude_gt", FALSE, 0)>>), Ev(100, <<>>)>>,
      <<Ev(400000, <<>>),
        Ev(0, <<Cond("time_lt", TRUE, 1000), Cond("altitude_gt", TRUE, 90000)>>)>> }

\* every vehicle without events, and two of them with every event list
Missions == (Vehicles \X {<<>>}) \cup ({Nominal, Weak} \X EventLists)

----------------------------------------------------------------------------
\* simulate_flight (130-165).

\* 0.5 * AIR_DENSITY * velocity**2 * drag_coeff * area * (1 if velocity > 0 else -1)
DragSign(v) == IF v > 0 THEN 1 ELSE -1
\* 0.5 * AIR_DENSITY * drag_coeff * area, in 1e-7 kg/m
DragFactor(drag_coeff, a) == (((AIR_DENSITY * drag_coeff) \div 2) * a) \div 100000
Drag(v, drag_coeff, a) ==
    LET k == DragFactor(drag_coeff, a)
        u == Abs(v) \div 10                \* |v| in mm/s
    IN  ((((k * u) \div 100000) * u) \div 10000) * DragSign(v)

\* math.pi * radius**2 with radius = diameter / 2
Area(diameter) ==
    LET radius == diameter \div 2 IN (((radius * radius) \div 1000) * PI10K) \div 10000

\* mass * GRAVITY
Weight(m) == (m * GRAVITY) \div 10

\* (thrust - drag - mass * GRAVITY) / mass, for mass # 0
Accel(thrust, drag, m) == ((thrust - drag - Weight(m)) * 1000) \div m

\* a variant without the ground clamp
Clamp_none(alt) == alt

\* if altitude < 0: altitude = 0
Clamp(alt) == IF alt < 0 THEN 0 ELSE alt

\* while altitude >= 0
LoopCondition(alt) == alt >= 0

\* a variant that stops on reaching the limit
TimedOut_at(tm) == tm >= TIME_LIMIT

\* if t > 300
TimedOut(tm) == tm > TIME_LIMIT

NoSample == [time |-> 0, altitude |-> 0, velocity |-> 0, acceleration |-> 0]
Ids == DOMAIN heap
Zeros == [i \in Ids |-> 0]

\* The terms of an event, read from section 4.2 of the description: its fire
\* time has come and every recognised constraint holds of the state.
Holds(c, state) ==
    CASE c.key = "altitude_gt" -> state.altitude > c.val
      [] c.key = "altitude_lt" -> state.altitude < c.val
      [] c.key = "time_gt" -> state.time > c.val
      [] c.key = "time_lt" -> state.time < c.val
      [] OTHER -> TRUE
Eligible(ev, state) ==
    /\ state.time >= ev.time
    /\ \A k \in DOMAIN ev.condition : Holds(ev.condition[k], state)

\* config.rocket_mass + config.motor_params.get("mass",0) + config.payload_mass
EffectiveMass(c) == c.rocket_mass + c.motor_params.mass + c.payload_mass

\* lines 131-143
Start ==
    /\ pc \in {"idle", "done", "error"}
    /\ run < MaxRuns
    /\ t' = 0
    /\ velocity' = 0
    /\ altitude' = 0
    /\ mass' = EffectiveMass(config)
    /\ area' = Area(config.rocket_diameter)
    /\ data' = [len |-> 0, last |-> NoSample]
    /\ events' = config.events
    /\ pc' = IF LoopCondition(0) THEN "loop" ELSE "done"
    /\ outcome' = "running"
    /\ run' = run + 1
    /\ steps' = 0
    /\ prevFiredAt' = firedAt
    /\ firedAt' = Zeros
    /\ firedCount' = Zeros
    /\ firstElig' = Zeros
    /\ liftoff' = FALSE
    /\ landedAt' = 0
    /\ UNCHANGED <<config, heap, interpVars, callVars>>

\* one iteration of the loop, lines 145-163, and the test that follows it
Step ==
    /\ pc = "loop"
    /\ LET thrust_curve == config.motor_params.thrust_curve
           drag_coeff   == config.drag_coefficient
           th           == interp_thrust(thrust_curve, t)
           thrust       == th.num \div th.den
           drag         == Drag(velocity, drag_coeff, area)
           accel        == Accel(thrust, drag, mass)
           v1           == velocity + accel \div (1000 \div DT)
           h1           == Clamp(altitude + v1 \div (1000 \div DT))
           t1           == t + DT
           state        == [time |-> t1, altitude |-> h1, velocity |-> v1,
                            acceleration |-> accel]
           re           == run_events(heap, events, state)
       IN  IF th.kind # "value" \/ mass = 0
           THEN /\ pc' = "error"
                /\ outcome' = "ZeroDivisionError"
                /\ UNCHANGED <<heap, t, velocity, altitude, data, steps, firedAt,
                               firedCount, firstElig, liftoff, landedAt>>
           ELSE /\ velocity' = v1
                /\ altitude' = h1
                /\ t' = t1
                /\ heap' = re.heap
                /\ IF re.err # "none"
                   THEN /\ pc' = "error"
                        /\ outcome' = re.err
                        /\ UNCHANGED <<data, steps, firedAt, firedCount, firstElig,
                                       liftoff, landedAt>>
                   ELSE /\ data' = [len |-> data.len + 1, last |-> state]
                        /\ steps' = steps + 1
                        /\ firedAt' = [i \in Ids |->
                               IF \E k \in DOMAIN re.triggered : re.triggered[k] = i
                               THEN steps + 1 ELSE firedAt[i]]
                        /\ firedCount' = [i \in Ids |->
                               firedCount[i]
                               + Cardinality({k \in DOMAIN re.triggered : re.triggered[k] = i})]
                        /\ firstElig' = [i \in Ids |->
                               IF firstElig[i] = 0 /\ Eligible(heap[i], state)
                               THEN steps + 1 ELSE firstElig[i]]
                        /\ liftoff' = (liftoff \/ h1 > 0)
                        /\ landedAt' = IF liftoff /\ landedAt = 0 /\ h1 = 0
                                       THEN steps + 1 ELSE landedAt
                        /\ IF TimedOut(t1)
                           THEN pc' = "done" /\ outcome' = "timeout"
                           ELSE IF LoopCondition(h1)
                           THEN pc' = "loop" /\ outcome' = "running"
                           ELSE pc' = "done" /\ outcome' = "landed"
    /\ UNCHANGED <<config, events, mass, area, run, prevFiredAt, interpVars, callVars>>

NotCalled == [kind |-> "none", num |-> 0, den |-> 1]
NoCall == [state |-> NoSample, triggered |-> <<>>, err |-> "none"]
NoCondCall == [conditions |-> <<>>, state |-> NoSample, result |-> "none"]

\* no simulate_flight call is in progress, no direct call has been made
SimIdle ==
    /\ pc = "idle"
    /\ t = 0 /\ velocity = 0 /\ altitude = 0 /\ mass = 0 /\ area = 0
    /\ data = [len |-> 0, last |-> NoSample]
    /\ outcome = "none"
    /\ run = 0 /\ steps = 0
    /\ firedAt = Zeros /\ firedCount = Zeros /\ firstElig = Zeros /\ prevFiredAt = Zeros
    /\ liftoff = FALSE /\ landedAt = 0
InterpIdle == curve = <<>> /\ tq = 0 /\ thrustResult = NotCalled
CallsIdle ==
    /\ callResult = NoCall /\ prevCall = NoCall /\ calls = 0
    /\ retCount = Zeros /\ everFlag = {} /\ condCall = NoCondCall

Init ==
    /\ \E m \in Missions :
          /\ config = MissionConfig(m[1], [i \in DOMAIN m[2] |-> i])
          /\ heap = m[2]
    /\ events = <<>>
    /\ SimIdle /\ InterpIdle /\ CallsIdle

Next == Start \/ Step

Spec == Init /\ [][Next]_vars

----------------------------------------------------------------------------
\* interp_thrust called directly, on every curve of up to MaxCurveLen control
\* points with times in 0..MaxPointTime, at every time around them.

Thrusts == {0, 4, 12}
Points == (0 .. MaxPointTime) \X Thrusts
Curves == UNION {[1 .. n -> Points] : n \in 0 .. MaxCurveLen}
QueryTimes == -1 .. (MaxPointTime + 1)

CallInterp ==
    /\ thrustResult.kind = "none"
    /\ thrustResult' = interp_thrust(curve, tq)
    /\ UNCHANGED <<curve, tq, simVars, callVars>>

InitInterp ==
    /\ curve \in Curves
    /\ tq \in QueryTimes
    /\ thrustResult = NotCalled
    /\ config = MissionConfig(Default, <<>>) /\ heap = <<>> /\ events = <<>>
    /\ SimIdle /\ CallsIdle

SpecInterp == InitInterp /\ [][CallInterp]_vars

----------------------------------------------------------------------------
\* run_events called directly: up to MaxCalls calls on one event list, with any
\* of CallStates each time.  check_conditions called directly, once, on any of
\* Conditions with any of CallStates.

CallStates ==
    { [time |-> tm, altitude |-> h, velocity |-> 0, acceleration |-> 0] :
        tm \in {0, 500, 1000, 3000}, h \in {0, 20000, 95000} }

Conditions ==
    {EventLists_l[i].condition : <<EventLists_l, i>> \in
        {<<l, i>> \in EventLists \X (1 .. 2) : i <= Len(l)}}
    \cup { <<Cond("time_gt", FALSE, 0)>>,
           <<Cond("altitude_lt", TRUE, 50000), Cond("altitude_gt", FALSE, 0)>>,
           <<Cond("colour", TRUE, 7), Cond("time_lt", TRUE, 1000)>>,
           <<Cond("colour", TRUE, 7), Cond("shape", FALSE, 0)>> }

CallRunEvents ==
    /\ calls < MaxCalls
    /\ \E state \in CallStates :
          LET re == run_events(heap, events, state)
          IN  /\ heap' = re.heap
              /\ callResult' = [state |-> state, triggered |-> re.triggered, err |-> re.err]
              /\ retCount' = [i \in Ids |->
                     retCount[i]
                     + Cardinality({k \in DOMAIN re.triggered : re.triggered[k] = i})]
              /\ everFlag' = everFlag \cup {i \in Ids : re.heap[i].triggered}
    /\ prevCall' = callResult
    /\ calls' = calls + 1
    /\ UNCHANGED <<pc, config, events, t, velocity, altitude, mass, area, data, outcome,
                   run, steps, firedAt, firedCount, firstElig, prevFiredAt, liftoff,
                   landedAt, interpVars, condCall>>

CallCheckConditions ==
    /\ condCall.result = "none"
    /\ \E conditions \in Conditions, state \in CallStates :
          condCall' = [conditions |-> conditions, state |-> state,
                       result |-> check_conditions(conditions, state)]
    /\ UNCHANGED <<simVars, interpVars, callResult, prevCall, calls, retCount, everFlag>>

InitEvents ==
    /\ heap \in EventLists
    /\ events = [i \in DOMAIN heap |-> i]
    /\ config = MissionConfig(Default, events)
    /\ SimIdle /\ InterpIdle /\ CallsIdle

SpecEvents == InitEvents /\ [][CallRunEvents]_vars

InitConditions ==
    /\ heap = <<>> /\ events = <<>>
    /\ config = MissionConfig(Default, <<>>)
    /\ SimIdle /\ InterpIdle /\ CallsIdle

SpecConditions == InitConditions /\ [][CallCheckConditions]_vars

----------------------------------------------------------------------------
\* Properties of simulate_flight (Spec).

\* the vehicle of the configuration is v
IsVehicle(c, v) == c = MissionConfig(v, c.events)
\* every recognised constraint of the event has a numeric threshold
WellFormed(ev) ==
    \A k \in DOMAIN ev.condition : ev.condition[k].key \in KnownKeys => ev.condition[k].num

\* C1: the vehicle with effective mass 0.5 kg, diameter 0.05 m, Cd 0.75 and
\* thrust curve (0,12 N)->(1.6 s,0) lifts off and ends its run by landing: no
\* more than one step is executed after the step at which altitude first
\* returns to 0, and the run ends with less than 300 s elapsed, not through
\* the safety cutoff.
C1_LandingEndsRun ==
    (IsVehicle(config, Nominal) /\ liftoff) =>
        /\ landedAt > 0 => steps <= landedAt + 1
        /\ pc = "done" => (outcome = "landed" /\ t < TIME_LIMIT)

\* C2: a second simulate_flight call on the same configuration starts with every
\* event's fired flag reset and fires the same events at the same steps as the
\* first call.
C2_RunsIndependent ==
    (run >= 2 /\ \A i \in Ids : WellFormed(heap[i])) =>
        /\ (pc = "loop" /\ steps = 0) => \A i \in Ids : ~heap[i].triggered
        /\ pc = "done" => firedAt = prevFiredAt

\* the first step whose time is at least tm
FirstStepAt(tm) == IF tm <= DT THEN 1 ELSE (tm + DT - 1) \div DT
\* C4: in the first run on a configuration (events unfired, thresholds numeric)
\* every event is reported exactly at the first step whose state has
\* time >= its fire time and meets its condition, and at no other step; an event
\* without condition fires once, at the first step with time >= its fire time.
C4_FiresAtFirstEligibleStep ==
    (run = 1 /\ \A i \in Ids : WellFormed(heap[i])) =>
        \A i \in Ids :
            /\ firedAt[i] = firstElig[i]
            /\ firedCount[i] = (IF firstElig[i] > 0 THEN 1 ELSE 0)
            /\ (firedAt[i] > 0) = heap[i].triggered
            /\ (heap[i].condition = <<>> /\ steps >= 1 /\ data.last.time >= heap[i].time)
                   => firedAt[i] = FirstStepAt(heap[i].time)
\* C4 reached: a conditional event held back by its condition and an
\* unconditional one have both fired, once each, and the run has returned
C4_Witness ==
    /\ run = 1 /\ pc = "done" /\ Len(heap) = 2
    /\ heap[1].condition = <<Cond("altitude_gt", TRUE, 10000)>>
    /\ firedAt[1] > FirstStepAt(heap[1].time)
    /\ heap[2].condition = <<>> /\ firedAt[2] = FirstStepAt(heap[2].time)
    /\ firedCount = [i \in Ids |-> 1]

Invalid(c) == c.rocket_diameter <= 0 \/ EffectiveMass(c) <= 0

\* C6: a configuration with diameter <= 0 or effective mass <= 0 is rejected
\* before the loop starts (no step, no sample), and a run that has started ends
\* only by landing or timeout, never by another error.
C6_RejectedBeforeLoop ==
    /\ Invalid(config) => (pc # "loop" /\ steps = 0 /\ data.len = 0)
    /\ pc = "error" => (outcome = "ValidationError" /\ steps = 0)

\* every sample so far has altitude 0, and a run that returned did so by timeout
Grounded ==
    /\ altitude = 0
    /\ data.last.altitude = 0
    /\ ~liftoff
    /\ pc = "done" => outcome = "timeout"

Increasing(c) == \A i \in 1 .. (Len(c) - 1) : c[i][1] < c[i + 1][1]
\* every control point's thrust is below the weight
ThrustBelowWeight(c) ==
    /\ EffectiveMass(c) > 0
    /\ Increasing(c.motor_params.thrust_curve)
    /\ \A k \in DOMAIN c.motor_params.thrust_curve :
           c.motor_params.thrust_curve[k][2] < Weight(EffectiveMass(c))
\* 0 <= 0.5*rho*Cd*A <= mass / (4 * g * dt^2): the step cannot reverse the fall
Stable(c) ==
    /\ c.drag_coefficient >= 0
    /\ (DragFactor(c.drag_coefficient, Area(c.rocket_diameter)) * GRAVITY) \div 100000
           <= EffectiveMass(c) * 1000

C8_TimeoutBoundsRun ==
    /\ data.len = steps
    /\ data.len <= (TIME_LIMIT \div DT) + 1
    /\ pc = "loop" => (t <= TIME_LIMIT /\ t = steps * DT)
    /\ (steps >= 1 /\ pc # "error") => data.last.time = t
    /\ outcome = "timeout" => (pc = "done" /\ t > TIME_LIMIT /\ t - DT <= TIME_LIMIT)
\* C8 reached: a run ended by the cutoff with its 6001st sample
C8_Witness ==
    /\ pc = "done" /\ outcome = "timeout"
    /\ data.len = (TIME_LIMIT \div DT) + 1
    /\ data.last.time = TIME_LIMIT + DT

----------------------------------------------------------------------------
\* Properties of run_events (SpecEvents).

Returned(call) == {call.triggered[k] : k \in DOMAIN call.triggered}

\* C3: over any sequence of run_events calls on one event list each event is
\* returned at most once, a flag once set is never cleared, and a second call
\* with the same state returns no event the first call returned.
C3_FiresAtMostOnce ==
    /\ \A i \in Ids : retCount[i] <= 1
    /\ \A i \in everFlag : heap[i].triggered
    /\ (calls >= 2 /\ prevCall.state = callResult.state)
           => Returned(prevCall) \cap Returned(callResult) = {}
\* C3 reached: two calls with the same state, the first returned an event
C3_Witness ==
    /\ calls >= 2 /\ prevCall.state = callResult.state
    /\ Returned(prevCall) # {} /\ Returned(callResult) = {}
    /\ \E i \in Ids : retCount[i] = 1

----------------------------------------------------------------------------
\* Properties of interp_thrust (SpecInterp).

Called == thrustResult.kind # "none"
Segments(c) == 1 .. (Len(c) - 1)
Contains(c, i, x) == c[i][1] <= x /\ x <= c[i + 1][1]
\* the result is the number n/d
Is(n, d) == thrustResult.kind = "value" /\ thrustResult.num * d = n * thrustResult.den
\* thrust0 + (thrust1-thrust0)*(x-t0)/(t1-t0) on segment i, as n/d
OnSegment(c, i, x) ==
    Is(c[i][2] * (c[i + 1][1] - c[i][1]) + (c[i + 1][2] - c[i][2]) * (x - c[i][1]),
       c[i + 1][1] - c[i][1])
\* a curve (0,T)->(B,0) gives T/2 at B/2
Midpoint ==
    (Len(curve) = 2 /\ curve[1][1] = 0 /\ curve[2][2] = 0 /\ curve[2][1] = 2 * tq /\ tq > 0)
        => Is(curve[1][2], 2)

Malformed(c) == Len(c) < 2 \/ ~Increasing(c)

\* C9: for a curve with fewer than 2 points or with non-monotonic times
\* (equal consecutive times included) interp_thrust returns 0 at every time
\* and never raises.
C9_MalformedGivesZero ==
    (Called /\ Malformed(curve)) => Is(0, 1)

----------------------------------------------------------------------------
\* Properties of check_conditions (SpecConditions).

\* C10: check_conditions returns a boolean for every condition mapping; a
\* mapping of unrecognised keys only is satisfied; a recognised constraint with
\* a non-numeric threshold is never satisfied, and nothing is raised.
C10_NeverAborts ==
    condCall.result # "none" =>
        LET cs == condCall.conditions
        IN  /\ condCall.result \in {"True", "False"}
            /\ (\A k \in DOMAIN cs : cs[k].key \notin KnownKeys) => condCall.result = "True"
            /\ (\E k \in DOMAIN cs : cs[k].key \in KnownKeys /\ ~cs[k].num)
                   => condCall.result = "False"

====
